---- MODULE Spec2Model ----
(***************************************************************************)
(* Model of the healthcare admissions ETL pipeline.                        *)
(*                                                                         *)
(*   et_pipeline.py            extract_and_validate_csv, load_to_staging,  *)
(*                             run_data_warehouse_load, main_etl_process   *)
(*   generate_and_push_data.py validate_and_key                            *)
(*                                                                         *)
(* A CSV cell is a sequence of one-character strings; an empty cell is NA. *)
(* Numbers are naturals with NaN as the missing number, dates are          *)
(* <<year, month, day>> with NaT as the missing date.  Of the ten free     *)
(* text columns only the three read by the Keyer are carried (Doctor,      *)
(* Hospital, Medical_Condition); the other seven are trimmed and grouped   *)
(* exactly as Doctor is and are read by no other line of the pipeline.     *)
(***************************************************************************)
EXTENDS Integers, Sequences, FiniteSets, TLC

\* ------------------------------------------------------------------ bounds
MaxRows == 2        \* rows in an uploaded file
MaxRuns == 2        \* uploads in one session of the UI

\* ------------------------------------------------------- missing values
NA == <<"NaN">>          \* missing text (numpy.nan in an object column)
NaN == -1                 \* missing number
NaT == <<0, 0, 0>>        \* missing date

NumCols == {"Age", "Billing_Amount"}
DateCols == {"Date_of_Admission", "Discharge_Date"}

\* Series.isna() of the value v of column c
isna(c, v) ==
    IF c \in NumCols THEN v = NaN
    ELSE IF c \in DateCols THEN v = NaT
    ELSE v = NA

\* ------------------------------------------------------------- characters
DigitChars == {"0", "1", "2", "3", "4", "5", "6", "7", "8", "9"}

DigitVal(c) ==
    CASE c = "0" -> 0 [] c = "1" -> 1 [] c = "2" -> 2 [] c = "3" -> 3
      [] c = "4" -> 4 [] c = "5" -> 5 [] c = "6" -> 6 [] c = "7" -> 7
      [] c = "8" -> 8 [] c = "9" -> 9

DigitChar(n) ==
    CASE n = 0 -> "0" [] n = 1 -> "1" [] n = 2 -> "2" [] n = 3 -> "3"
      [] n = 4 -> "4" [] n = 5 -> "5" [] n = 6 -> "6" [] n = 7 -> "7"
      [] n = 8 -> "8" [] n = 9 -> "9"

\* code point of the characters that occur in the modelled files
Ord(c) ==
    CASE c = " " -> 32 [] c = "$" -> 36 [] c = "," -> 44 [] c = "-" -> 45
      [] c = "/" -> 47
      [] c \in DigitChars -> 48 + DigitVal(c)
      [] c = "a" -> 97 [] c = "b" -> 98 [] c = "c" -> 99 [] c = "d" -> 100
      [] c = "h" -> 104 [] c = "n" -> 110 [] c = "x" -> 120
      [] c = "|" -> 124

IsDigits(s) == s # <<>> /\ \A i \in 1..Len(s) : s[i] \in DigitChars

RECURSIVE NumVal(_)
NumVal(s) ==
    IF s = <<>> THEN 0
    ELSE 10 * NumVal(SubSeq(s, 1, Len(s) - 1)) + DigitVal(s[Len(s)])

\* ------------------------------------------------------ Cleaner: trimming
RECURSIVE LStrip(_)
LStrip(s) == IF s # <<>> /\ Head(s) = " " THEN LStrip(Tail(s)) ELSE s

RECURSIVE RStrip(_)
RStrip(s) ==
    IF s # <<>> /\ s[Len(s)] = " " THEN RStrip(SubSeq(s, 1, Len(s) - 1)) ELSE s

\* Series.str.strip(): missing values stay missing
str_strip(s) == IF s = NA THEN NA ELSE LStrip(RStrip(s))

\* --------------------------------------------------- Cleaner: coercions
\* Series.astype(str) on an object column: a missing cell becomes "nan"
astype_str(s) == IF s = NA THEN <<"n", "a", "n">> ELSE s

\* .str.replace(r'[$,]', '', regex=True)
str_replace_currency(s) == SelectSeq(s, LAMBDA c : c \notin {"$", ","})

\* pd.to_numeric(..., errors='coerce') on the modelled alphabet (no sign,
\* no decimal point, no exponent): digit strings parse, the rest is NaN
to_numeric(s) == IF s # NA /\ IsDigits(s) THEN NumVal(s) ELSE NaN

IsLeap(y) == (y % 4 = 0 /\ y % 100 # 0) \/ y % 400 = 0

DaysInMonth(y, m) ==
    IF m = 2 THEN (IF IsLeap(y) THEN 29 ELSE 28)
    ELSE IF m \in {4, 6, 9, 11} THEN 30 ELSE 31

\* positions of the character ch in s
Positions(s, ch) == {i \in 1..Len(s) : s[i] = ch}

\* to_datetime that takes any three numbers for a date
to_datetime_unchecked(s) ==
    IF s = NA THEN NaT
    ELSE LET sl == Positions(s, "/") IN
         IF Cardinality(sl) # 2 THEN NaT
         ELSE LET p1 == CHOOSE i \in sl : \A j \in sl : i <= j
                  p2 == CHOOSE i \in sl : \A j \in sl : j <= i
                  ms == SubSeq(s, 1, p1 - 1)
                  ds == SubSeq(s, p1 + 1, p2 - 1)
                  ys == SubSeq(s, p2 + 1, Len(s))
              IN IF IsDigits(ms) /\ IsDigits(ds) /\ IsDigits(ys)
                 THEN <<NumVal(ys), NumVal(ms), NumVal(ds)>>
                 ELSE NaT

\* pd.to_datetime(..., format='%m/%d/%Y', errors='coerce'):
\* %m and %d are one or two digits, %Y is four digits, the whole text must
\* match and the day must exist in the month
to_datetime(s) ==
    IF s = NA THEN NaT
    ELSE LET sl == Positions(s, "/") IN
         IF Cardinality(sl) # 2 THEN NaT
         ELSE LET p1 == CHOOSE i \in sl : \A j \in sl : i <= j
                  p2 == CHOOSE i \in sl : \A j \in sl : j <= i
                  ms == SubSeq(s, 1, p1 - 1)
                  ds == SubSeq(s, p1 + 1, p2 - 1)
                  ys == SubSeq(s, p2 + 1, Len(s))
              IN IF /\ IsDigits(ms) /\ Len(ms) \in 1..2
                    /\ IsDigits(ds) /\ Len(ds) \in 1..2
                    /\ IsDigits(ys) /\ Len(ys) = 4
                    /\ NumVal(ms) \in 1..12
                    /\ NumVal(ds) \in 1..DaysInMonth(NumVal(ys), NumVal(ms))
                 THEN <<NumVal(ys), NumVal(ms), NumVal(ds)>>
                 ELSE NaT

\* lines 58-78: trim the text columns, then coerce numbers and dates
CleanRow(r) ==
    [Name              |-> str_strip(r.Name),
     Age               |-> to_numeric(str_strip(r.Age)),
     Medical_Condition |-> str_strip(r.Medical_Condition),
     Date_of_Admission |-> to_datetime(str_strip(r.Date_of_Admission)),
     Doctor            |-> str_strip(r.Doctor),
     Hospital          |-> str_strip(r.Hospital),
     Billing_Amount    |-> to_numeric(str_replace_currency(
                               astype_str(str_strip(r.Billing_Amount)))),
     Discharge_Date    |-> to_datetime(str_strip(r.Discharge_Date))]

Clean(rows) == [i \in 1..Len(rows) |-> CleanRow(rows[i])]

\* line 82: df.dropna(subset=['Name', 'Date_of_Admission'])
dropna(rows) ==
    SelectSeq(rows, LAMBDA r : /\ ~isna("Name", r.Name)
                               /\ ~isna("Date_of_Admission", r.Date_of_Admission))

\* ------------------------------------------------------------ Deduplicator
\* line 89: df.drop_duplicates() keeps the first of each set of equal rows
RECURSIVE drop_duplicates(_)
drop_duplicates(rows) ==
    IF rows = <<>> THEN <<>>
    ELSE LET front == drop_duplicates(SubSeq(rows, 1, Len(rows) - 1))
             last  == rows[Len(rows)]
         IN IF \E i \in 1..Len(front) : front[i] = last
            THEN front ELSE Append(front, last)

\* line 95: every column but Age, in the order of the file's header
group_cols ==
    <<"Name", "Medical_Condition", "Date_of_Admission", "Doctor", "Hospital",
      "Billing_Amount", "Discharge_Date">>

GroupKey(r) == [c \in {group_cols[i] : i \in 1..Len(group_cols)} |-> r[c]]

\* groupby's default dropna=True: a row with a missing value in any
\* grouping column belongs to no group
HasNullKey(r) ==
    \E i \in 1..Len(group_cols) : isna(group_cols[i], r[group_cols[i]])

RECURSIVE SeqLess(_, _)
SeqLess(a, b) ==
    IF b = <<>> THEN FALSE
    ELSE IF a = <<>> THEN TRUE
    ELSE IF Head(a) # Head(b) THEN Head(a) < Head(b)
    ELSE SeqLess(Tail(a), Tail(b))

CodePoints(s) == [i \in 1..Len(s) |-> Ord(s[i])]

\* order of two values of one grouping column
ValLess(c, x, y) ==
    IF c \in NumCols THEN x < y
    ELSE IF c \in DateCols THEN SeqLess(x, y)
    ELSE SeqLess(CodePoints(x), CodePoints(y))

\* groupby's default sort=True: groups in lexicographic order of their keys
RECURSIVE KeyLessFrom(_, _, _)
KeyLessFrom(i, k1, k2) ==
    IF i > Len(group_cols) THEN FALSE
    ELSE LET c == group_cols[i] IN
         IF k1[c] # k2[c] THEN ValLess(c, k1[c], k2[c])
         ELSE KeyLessFrom(i + 1, k1, k2)

KeyLess(k1, k2) == KeyLessFrom(1, k1, k2)

RECURSIVE SortKeys(_)
SortKeys(S) ==
    IF S = {} THEN <<>>
    ELSE LET least == CHOOSE k \in S : \A o \in S \ {k} : KeyLess(k, o)
         IN <<least>> \o SortKeys(S \ {least})

\* 'min' skips missing values; a group with no Age at all keeps NaN
AgeMin(ages) ==
    IF ages \ {NaN} = {} THEN NaN
    ELSE CHOOSE a \in ages \ {NaN} : \A b \in ages \ {NaN} : a <= b

\* lines 95-102: df.groupby(group_cols, as_index=False).agg({'Age': 'min'})
groupby_agg(rows) ==
    LET kept == SelectSeq(rows, LAMBDA r : ~HasNullKey(r))
        keys == SortKeys({GroupKey(kept[i]) : i \in 1..Len(kept)})
        ages(k) == {kept[i].Age : i \in {j \in 1..Len(kept) : GroupKey(kept[j]) = k}}
    IN [i \in 1..Len(keys) |->
          [Name              |-> keys[i].Name,
           Age               |-> AgeMin(ages(keys[i])),
           Medical_Condition |-> keys[i].Medical_Condition,
           Date_of_Admission |-> keys[i].Date_of_Admission,
           Doctor            |-> keys[i].Doctor,
           Hospital          |-> keys[i].Hospital,
           Billing_Amount    |-> keys[i].Billing_Amount,
           Discharge_Date    |-> keys[i].Discharge_Date]]

\* ------------------------------------------------------------------- Keyer
Pad(n, w) ==
    [i \in 1..w |->
        DigitChar((n \div (IF w - i = 0 THEN 1 ELSE IF w - i = 1 THEN 10
                           ELSE IF w - i = 2 THEN 100 ELSE 1000)) % 10)]

IsoDate(d) == Pad(d[1], 4) \o <<"-">> \o Pad(d[2], 2) \o <<"-">> \o Pad(d[3], 2)

\* str() of a Timestamp, which keeps the time of day
timestamp_str_full(d) ==
    IsoDate(d) \o <<" ", "0", "0", ":", "0", "0", ":", "0", "0">>

\* astype(str) of a datetime64 column whose values are all midnights
timestamp_str(d) == IsoDate(d)

\* str() of a datetime.date object
date_str(d) == IsoDate(d)

RECURSIVE join(_, _)
join(sep, parts) ==
    IF parts = <<>> THEN <<>>
    ELSE IF Len(parts) = 1 THEN parts[1]
    ELSE parts[1] \o <<sep>> \o join(sep, Tail(parts))

\* .fillna('') on a text column
fillna_text(v) == IF v = NA THEN <<>> ELSE v

\* line 109
key_cols == <<"Name", "Date_of_Admission", "Doctor", "Hospital", "Medical_Condition">>

\* line 112: df[key_cols].fillna('').astype(str).apply('|'.join, axis=1)
composite_key(r) ==
    join("|", <<fillna_text(r.Name),
                IF r.Date_of_Admission = NaT THEN <<>>
                ELSE timestamp_str(r.Date_of_Admission),
                fillna_text(r.Doctor),
                fillna_text(r.Hospital),
                fillna_text(r.Medical_Condition)>>)

\* hashlib.sha256(x.encode()).hexdigest(): the digest is modelled as
\* collision free, a tag in front of the text that was hashed
sha256(s) == <<"sha256:">> \o s

WithKey(r, id) ==
    [Name              |-> r.Name,
     Age               |-> r.Age,
     Medical_Condition |-> r.Medical_Condition,
     Date_of_Admission |-> r.Date_of_Admission,
     Doctor            |-> r.Doctor,
     Hospital          |-> r.Hospital,
     Billing_Amount    |-> r.Billing_Amount,
     Discharge_Date    |-> r.Discharge_Date,
     SourceAdmissionID |-> id]

\* lines 112-120 on a frame that has rows
Keyer(rows) ==
    [i \in 1..Len(rows) |-> WithKey(rows[i], sha256(composite_key(rows[i])))]

\* generate_and_push_data.py lines 61-70: the same key on generated rows,
\* whose Date_of_Admission holds datetime.date objects
gen_composite_key(r) ==
    join("|", <<fillna_text(r.Name),
                date_str(r.Date_of_Admission),
                fillna_text(r.Doctor),
                fillna_text(r.Hospital),
                fillna_text(r.Medical_Condition)>>)

validate_and_key(rows) ==
    [i \in 1..Len(rows) |-> WithKey(rows[i], sha256(gen_composite_key(rows[i])))]

\* lines 56-105: Cleaner, validation gate and Deduplicator
Shape(rows) == groupby_agg(drop_duplicates(dropna(Clean(rows))))

\* ------------------------------------------------------------------ state
VARIABLES
    uploaded_file,  \* the file handed to main_etl_process
    pc,             \* the statement main_etl_process is about to execute
    clean_df,       \* the frame extract_and_validate_csv returned
    extract_ret,    \* "pending", "None", "df" or "raised"
    raised,         \* the exception caught at line 48, 144, 161 or 190
    staging,        \* committed rows of the table Staging_Admissions
    sink_batch,     \* the frame load_to_staging was called with
    calls,          \* calls to the collaborators and how they ended
    result,         \* what main_etl_process returned
    runs,           \* uploads so far
    last_good,      \* staging as the last successful load_to_staging left it
    gen_df,         \* the frame of generate_and_push_data.py
    gen_pc          \* "idle", "generated" or "keyed"

vars == <<uploaded_file, pc, clean_df, extract_ret, raised, staging,
          sink_batch, calls, result, runs, last_good, gen_df, gen_pc>>

Columns ==
    {"Name", "Age", "Medical_Condition", "Date_of_Admission", "Doctor",
     "Hospital", "Billing_Amount", "Discharge_Date"}

\* the order in which extract_and_validate_csv first reads each column:
\* lines 62, 66, 69, 74, 82 and then key_cols at line 112
ReadOrder ==
    <<"Billing_Amount", "Age", "Date_of_Admission", "Discharge_Date", "Name",
      "Doctor", "Hospital", "Medical_Condition">>

\* the column whose absence raises the KeyError
FirstMissing(cols) ==
    LET i == CHOOSE j \in 1..Len(ReadOrder) :
                 /\ ReadOrder[j] \notin cols
                 /\ \A k \in 1..(j - 1) : ReadOrder[k] \in cols
    IN ReadOrder[i]

\* lines 184, 188 and 192
MsgLoaded == "Successfully loaded {n} new admission records."
MsgHalted == "ETL process halted: No valid data to load."
MsgFailed == "ETL process FAILED: {e}"

NoResult == [ok |-> FALSE, msg |-> "", n |-> 0, err |-> <<>>]

\* DataFrame.apply(axis=1) on a frame without rows at line 112: pandas
\* returns an empty Series up to 1.4 and a copy of the five-column frame
\* from 1.5 on, which line 112 cannot assign to the single column
\* 'composite_key' (ValueError)
EmptyApplyOutcomes == {"series", "frame"}

Returned(ok, msg, n, err) ==
    /\ result' = [ok |-> ok, msg |-> msg, n |-> n, err |-> err]
    /\ pc' = "done"

\* lines 190-192: the except clause of main_etl_process, silent
Swallowed(e) == Returned(FALSE, MsgHalted, 0, <<>>)

\* lines 190-192: the except clause of main_etl_process
Failed(e) == Returned(FALSE, MsgFailed, 0, e)

\* ---------------------------------------------------------------- actions
\* main_etl_process line 174 with all of extract_and_validate_csv, and the
\* branches of lines 176 and 186-192 that return at once
Extract ==
    /\ pc = "start"
    /\ UNCHANGED <<uploaded_file, staging, sink_batch, calls, runs, last_good,
                   gen_df, gen_pc>>
    /\ IF uploaded_file.kind = "garbage"
       THEN \* lines 48-50: read_csv raised, the error is printed, None returned
            /\ raised' = <<"ParserError">>
            /\ extract_ret' = "None"
            /\ clean_df' = <<>>
            /\ Returned(FALSE, MsgHalted, 0, <<>>)
       ELSE IF Columns \ uploaded_file.columns # {}
       THEN \* a KeyError leaves extract_and_validate_csv, caught at line 190
            /\ raised' = <<"KeyError", FirstMissing(uploaded_file.columns)>>
            /\ extract_ret' = "raised"
            /\ clean_df' = <<>>
            /\ Failed(raised')
       ELSE LET shaped == Shape(uploaded_file.rows) IN
            IF shaped = <<>>
            THEN \E o \in EmptyApplyOutcomes :
                   IF o = "series"
                   THEN /\ raised' = <<>>
                        /\ extract_ret' = "df"
                        /\ clean_df' = <<>>
                        /\ Returned(FALSE, MsgHalted, 0, <<>>)
                   ELSE /\ raised' = <<"ValueError", "composite_key">>
                        /\ extract_ret' = "raised"
                        /\ clean_df' = <<>>
                        /\ Failed(raised')
            ELSE /\ raised' = <<>>
                 /\ extract_ret' = "df"
                 /\ clean_df' = Keyer(shaped)
                 /\ pc' = "load_to_staging"
                 /\ UNCHANGED result

\* load_to_staging fails at line 133 or 136, before the TRUNCATE
SinkFailEarly ==
    /\ pc = "load_to_staging"
    /\ sink_batch' = clean_df
    /\ calls' = calls \o <<"sink", "sink_err">>
    /\ raised' = <<"SinkError">>
    /\ Failed(raised')
    /\ UNCHANGED <<uploaded_file, clean_df, extract_ret, staging, runs,
                   last_good, gen_df, gen_pc>>

\* line 137: TRUNCATE TABLE commits implicitly in MySQL, so the table is
\* empty for every reader from here on whatever the transaction does later
SinkTruncate ==
    /\ pc = "load_to_staging"
    /\ sink_batch' = clean_df
    /\ calls' = Append(calls, "sink")
    /\ staging' = <<>>
    /\ pc' = "to_sql"
    /\ UNCHANGED <<uploaded_file, clean_df, extract_ret, raised, result, runs,
                   last_good, gen_df, gen_pc>>

\* lines 138-143: the rows are appended and the transaction commits
SinkAppend ==
    /\ pc = "to_sql"
    /\ staging' = staging \o sink_batch
    /\ last_good' = staging'
    /\ calls' = Append(calls, "sink_ok")
    /\ pc' = "run_data_warehouse_load"
    /\ UNCHANGED <<uploaded_file, clean_df, extract_ret, raised, sink_batch,
                   result, runs, gen_df, gen_pc>>

\* SinkFailLate without the raise of line 146: the run goes on
SinkFailLateNoRaise ==
    /\ pc = "to_sql"
    /\ calls' = Append(calls, "sink_err")
    /\ pc' = "run_data_warehouse_load"
    /\ UNCHANGED <<uploaded_file, clean_df, extract_ret, raised, staging,
                   sink_batch, result, runs, last_good, gen_df, gen_pc>>

\* line 138 or 141 raises: the inserts roll back, the TRUNCATE does not
SinkFailLate ==
    /\ pc = "to_sql"
    /\ calls' = Append(calls, "sink_err")
    /\ raised' = <<"SinkError">>
    /\ Failed(raised')
    /\ UNCHANGED <<uploaded_file, clean_df, extract_ret, staging, sink_batch,
                   runs, last_good, gen_df, gen_pc>>

\* Merge that reports the number of rows of the uploaded file
MergeRawCount ==
    /\ pc = "run_data_warehouse_load"
    /\ calls' = calls \o <<"merger", "merger_ok">>
    /\ Returned(TRUE, MsgLoaded, Len(uploaded_file.rows), <<>>)
    /\ UNCHANGED <<uploaded_file, clean_df, extract_ret, raised, staging,
                   sink_batch, runs, last_good, gen_df, gen_pc>>

\* lines 181-184: the stored procedure ran
Merge ==
    /\ pc = "run_data_warehouse_load"
    /\ calls' = calls \o <<"merger", "merger_ok">>
    /\ Returned(TRUE, MsgLoaded, Len(clean_df), <<>>)
    /\ UNCHANGED <<uploaded_file, clean_df, extract_ret, raised, staging,
                   sink_batch, runs, last_good, gen_df, gen_pc>>

\* lines 161-163 and 190-192: the stored procedure failed
MergeFail ==
    /\ pc = "run_data_warehouse_load"
    /\ calls' = calls \o <<"merger", "merger_err">>
    /\ raised' = <<"MergeError">>
    /\ Failed(raised')
    /\ UNCHANGED <<uploaded_file, clean_df, extract_ret, staging, sink_batch,
                   runs, last_good, gen_df, gen_pc>>

\* generate_and_push_data.py line 126
GenValidateAndKey ==
    /\ gen_pc = "generated"
    /\ gen_df' = validate_and_key(gen_df)
    /\ gen_pc' = "keyed"
    /\ UNCHANGED <<uploaded_file, pc, clean_df, extract_ret, raised, staging,
                   sink_batch, calls, result, runs, last_good>>

\* the next upload of the session (app.py lines 56-66)
NewRun(files) ==
    /\ pc = "done"
    /\ runs < MaxRuns
    /\ uploaded_file' \in files
    /\ pc' = "start"
    /\ clean_df' = <<>>
    /\ extract_ret' = "pending"
    /\ raised' = <<>>
    /\ sink_batch' = <<>>
    /\ calls' = <<>>
    /\ result' = NoResult
    /\ runs' = runs + 1
    /\ UNCHANGED <<staging, last_good, gen_df, gen_pc>>

\* ----------------------------------------------------------------- inputs
Txt_a == <<"a">>
Txt_c == <<"c">>
Txt_ab == <<"a", "|", "b">>
Txt_bc == <<"b", "|", "c">>

GoodAdmission == <<"0", "1", "/", "0", "5", "/", "2", "0", "2", "4">>
ShortAdmission == <<"1", "/", "6", "/", "2", "0", "2", "4">>
BadAdmission == <<"1", "3", "/", "4", "0", "/", "2", "0", "2", "4">>
GoodDischarge == <<"0", "1", "/", "0", "9", "/", "2", "0", "2", "4">>
BadDischarge == <<"2", "0", "2", "4", "-", "0", "1", "-", "0", "9">>
GoodBilling == <<"$", "1", ",", "2", "0", "0">>
BadBilling == <<"a", "b", "c">>
Age35 == <<"3", "5">>
Age40 == <<"4", "0", " ">>

RawRecord(name, age, date, doctor, hospital, billing, discharge) ==
    [Name              |-> name,
     Age               |-> age,
     Medical_Condition |-> Txt_c,
     Date_of_Admission |-> date,
     Doctor            |-> doctor,
     Hospital          |-> hospital,
     Billing_Amount    |-> billing,
     Discharge_Date    |-> discharge]

MaxDefects == 1     \* cells of one row that are empty or fail to coerce

Defects == {"Name", "Date_of_Admission", "Doctor", "Billing_Amount", "Discharge_Date"}

RawRow(age, D) ==
    RawRecord(IF "Name" \in D THEN NA ELSE Txt_a,
              age,
              IF "Date_of_Admission" \in D THEN BadAdmission ELSE GoodAdmission,
              IF "Doctor" \in D THEN NA ELSE <<" ", "a">>,
              Txt_c,
              IF "Billing_Amount" \in D THEN BadBilling ELSE GoodBilling,
              IF "Discharge_Date" \in D THEN BadDischarge ELSE GoodDischarge)

\* rows that exercise the Cleaner and the Deduplicator
RawRows ==
    {RawRow(a, D) : a \in {Age35, Age40, <<"x">>},
                    D \in {X \in SUBSET Defects : Cardinality(X) <= MaxDefects}}

\* rows that exercise the Keyer: clean rows that differ in the key columns
KeyRows ==
    {RawRecord(Txt_a, Age35, date, doctor, hospital, GoodBilling, GoodDischarge) :
        date \in {GoodAdmission, ShortAdmission},
        doctor \in {Txt_a, Txt_ab},
        hospital \in {Txt_c, Txt_bc}}

\* rows of create_row(): no missing value, dates are date objects
GenRows ==
    {[Name |-> Txt_a, Age |-> 18, Medical_Condition |-> Txt_c,
      Date_of_Admission |-> d, Doctor |-> Txt_a, Hospital |-> Txt_c,
      Billing_Amount |-> 1000, Discharge_Date |-> <<2024, 1, 9>>] :
        d \in {<<2024, 1, 5>>, <<2024, 1, 6>>}}

Batches(S) == UNION {[1..n -> S] : n \in 0..MaxRows}

Csv(rows) == [kind |-> "csv", columns |-> Columns, rows |-> rows]

Garbage == [kind |-> "garbage", columns |-> {}, rows |-> <<>>]

MissingColumn(c) ==
    [kind |-> "csv", columns |-> Columns \ {c}, rows |-> <<RawRow(Age35, {})>>]

Files ==
    {Csv(b) : b \in Batches(RawRows)} \cup {Garbage}
        \cup {MissingColumn(c) : c \in Columns}

KeyFiles == {Csv(b) : b \in Batches(KeyRows)}

\* the files of a session with several uploads
RunFiles ==
    {Garbage,
     MissingColumn("Billing_Amount"),
     Csv(<<RawRow(Age35, {"Name"})>>),
     Csv(<<RawRow(Age35, {})>>),
     Csv(<<RawRecord(Txt_a, Age35, ShortAdmission, Txt_ab, Txt_bc,
                     GoodBilling, GoodDischarge)>>),
     Csv(<<RawRow(Age40, {}), RawRow(<<"x">>, {"Billing_Amount"})>>)}

\* what an earlier upload left in the staging table
PriorBatch == Keyer(Shape(<<RawRow(Age40, {})>>))

InitRun(files, tables) ==
    /\ uploaded_file \in files
    /\ pc = "start"
    /\ clean_df = <<>>
    /\ extract_ret = "pending"
    /\ raised = <<>>
    /\ staging \in tables
    /\ sink_batch = <<>>
    /\ calls = <<>>
    /\ result = NoResult
    /\ runs = 1
    /\ last_good = staging

\* one run of main_etl_process on any file
Init ==
    /\ InitRun(Files, {PriorBatch})
    /\ gen_df = <<>>
    /\ gen_pc = "idle"

Next ==
    \/ Extract
    \/ SinkFailEarly
    \/ SinkTruncate
    \/ SinkAppend
    \/ SinkFailLate
    \/ Merge
    \/ MergeFail

Spec == Init /\ [][Next]_vars

\* one run of main_etl_process and one run of the generator's keying
InitKey ==
    /\ InitRun(KeyFiles, {PriorBatch})
    /\ gen_df \in Batches(GenRows)
    /\ gen_pc = "generated"

NextKey == Next \/ GenValidateAndKey

SpecKey == InitKey /\ [][NextKey]_vars

\* a session of up to MaxRuns uploads
InitRuns ==
    /\ InitRun(RunFiles, {<<>>, PriorBatch})
    /\ gen_df = <<>>
    /\ gen_pc = "idle"

NextRuns == Next \/ NewRun(RunFiles)

SpecRuns == InitRuns /\ [][NextRuns]_vars

\* ------------------------------------------------------------------ claims
Recs(df) == {df[i] : i \in 1..Len(df)}

\* what the Cleaner, the gate and the exact dedup leave of the file
Survivors == drop_duplicates(dropna(Clean(uploaded_file.rows)))

FiveTuple(r) ==
    <<r.Name, r.Date_of_Admission, r.Doctor, r.Hospital, r.Medical_Condition>>

\* C1: every group of surviving rows that agree on all columns but Age,
\* nulls in the shared columns included, has exactly one record in the
\* output of extract_and_validate_csv, carrying the group's least Age
NearDedupMinimality ==
    extract_ret = "df" =>
        \A i \in 1..Len(Survivors) :
            LET k       == GroupKey(Survivors[i])
                members == {m \in 1..Len(Survivors) : GroupKey(Survivors[m]) = k}
                outs    == {j \in 1..Len(clean_df) : GroupKey(clean_df[j]) = k}
            IN /\ Cardinality(outs) = 1
               /\ \A j \in outs :
                      clean_df[j].Age = AgeMin({Survivors[m].Age : m \in members})

\* C2: a row whose cells are all filled is in the output exactly when its
\* Name and Date_of_Admission are not null after coercion; a failed
\* coercion of Billing_Amount, Age or Discharge_Date does not drop it
CoercionTolerance ==
    extract_ret = "df" =>
        \A i \in 1..Len(uploaded_file.rows) :
            LET raw == uploaded_file.rows[i]
                c   == CleanRow(raw)
            IN (raw.Name # NA /\ raw.Doctor # NA) =>
                   ((\E j \in 1..Len(clean_df) : GroupKey(clean_df[j]) = GroupKey(c))
                        <=> (c.Name # NA /\ c.Date_of_Admission # NaT))

\* C3: a readable file whose batch is empty after Loader, Cleaner and
\* Deduplicator makes main_etl_process return (false, "no valid data")
\* with neither collaborator invoked
EmptyResultShortCircuit ==
    (/\ pc = "done"
     /\ uploaded_file.kind = "csv"
     /\ uploaded_file.columns = Columns
     /\ Shape(uploaded_file.rows) = <<>>)
        => /\ result.ok = FALSE
           /\ result.msg = MsgHalted
           /\ calls = <<>>

\* C4 as stated: whenever a core stage fails, main_etl_process returns
\* (false, m) with m the message of that failure, no batch is produced and
\* no collaborator is invoked
StageFailureSurfaced ==
    (pc = "done" /\ extract_ret \in {"None", "raised"})
        => /\ result.ok = FALSE
           /\ result.msg = MsgFailed
           /\ result.err = raised
           /\ clean_df = <<>>
           /\ calls = <<>>

\* C4 as amended: whenever a core stage fails, main_etl_process returns
\* (false, m), no batch is produced, no collaborator is invoked and the
\* staging table is untouched; m carries the message of the failure when
\* the failure is raised out of extract_and_validate_csv (a missing
\* column), and is the "No valid data to load" message when read_csv
\* cannot parse the byte stream
StageFailureReported ==
    (pc = "done" /\ extract_ret \in {"None", "raised"})
        => /\ result.ok = FALSE
           /\ clean_df = <<>>
           /\ calls = <<>>
           /\ staging = last_good
           /\ raised # <<>>
           /\ extract_ret = "raised" => (result.msg = MsgFailed /\ result.err = raised)
           /\ extract_ret = "None" => (result.msg = MsgHalted /\ result.err = <<>>)

\* C4 witness: a missing column has been reported
StageFailureWitness ==
    /\ pc = "done"
    /\ extract_ret = "raised"
    /\ raised = <<"KeyError", "Name">>

\* C5: a run that returns ok = true called the Staging Sink once with the
\* final keyed batch, which succeeded, then the Warehouse Merger once,
\* which succeeded, and reports the size of that batch
SuccessOrdering ==
    (pc = "done" /\ result.ok)
        => /\ calls = <<"sink", "sink_ok", "merger", "merger_ok">>
           /\ extract_ret = "df"
           /\ sink_batch = clean_df
           /\ staging = clean_df
           /\ result.msg = MsgLoaded
           /\ result.n = Len(clean_df)

\* C5 witness: a successful run that loaded fewer records than the file has rows
SuccessWitness ==
    /\ pc = "done"
    /\ result.ok
    /\ result.n < Len(uploaded_file.rows)

Count(seq, x) == Cardinality({i \in 1..Len(seq) : seq[i] = x})

\* C6: a failed Staging Sink ends the run with (false, message) and the
\* Warehouse Merger not invoked; a failed Warehouse Merger ends it with
\* (false, message); each collaborator is invoked at most once per run and
\* nothing writes the staging table once the run has returned
CollaboratorFailure ==
    /\ [](/\ Count(calls, "sink") <= 1
          /\ Count(calls, "merger") <= 1
          /\ (pc = "done" /\ Count(calls, "sink_err") > 0)
                => /\ result = [ok |-> FALSE, msg |-> MsgFailed, n |-> 0,
                                err |-> <<"SinkError">>]
                   /\ Count(calls, "merger") = 0
          /\ (pc = "done" /\ Count(calls, "merger_err") > 0)
                => result = [ok |-> FALSE, msg |-> MsgFailed, n |-> 0,
                             err |-> <<"MergeError">>])
    /\ [][pc = "done" => staging' = staging]_vars

\* C6 witness: the Sink failed after its TRUNCATE and the run has returned
SinkFailureWitness ==
    /\ pc = "done"
    /\ calls = <<"sink", "sink_err">>
    /\ staging = <<>>
    /\ last_good # <<>>

\* every keyed record at hand: this run's batch, the staged batch of an
\* earlier run, and the generator's batch
KeyedRecords ==
    Recs(clean_df) \cup Recs(staging)
        \cup (IF gen_pc = "keyed" THEN Recs(gen_df) ELSE {})

\* C7: two keyed records with the same cleaned (Name, Date_of_Admission,
\* Doctor, Hospital, Medical_Condition) carry the same SourceAdmissionID,
\* whatever their other fields, batch, run or keying script
IdempotentKeying ==
    \A r1, r2 \in KeyedRecords :
        FiveTuple(r1) = FiveTuple(r2) => r1.SourceAdmissionID = r2.SourceAdmissionID

\* C7 witness: a pipeline record and a generator record with the same key
\* fields and different ages
IdempotentKeyingWitness ==
    /\ gen_pc = "keyed"
    /\ \E r1 \in Recs(clean_df), r2 \in Recs(gen_df) :
           FiveTuple(r1) = FiveTuple(r2) /\ r1.Age # r2.Age

\* C8: every record of the output, and so every record handed to the
\* Staging Sink, has a Name and a Date_of_Admission; a row whose Name is
\* missing or whose Date_of_Admission is missing or "13/40/2024" is not in
\* the output
RequiredFieldGate ==
    /\ \A r \in Recs(clean_df) \cup Recs(sink_batch) \cup Recs(staging) :
           r.Name # NA /\ r.Date_of_Admission # NaT
    /\ extract_ret = "df" =>
           \A i \in 1..Len(uploaded_file.rows) :
               LET raw == uploaded_file.rows[i] IN
               (raw.Name = NA \/ raw.Date_of_Admission \in {NA, BadAdmission})
                   => ~ \E j \in 1..Len(clean_df) :
                            GroupKey(clean_df[j]) = GroupKey(CleanRow(raw))

\* C8 witness: a batch was produced from a file with a "13/40/2024" row
RequiredFieldWitness ==
    /\ extract_ret = "df"
    /\ clean_df # <<>>
    /\ \E i \in 1..Len(uploaded_file.rows) :
           uploaded_file.rows[i].Date_of_Admission = BadAdmission

\* C9: when a run has returned, the staging table holds what the last
\* successful load_to_staging put there: a failed call leaves the prior
\* contents in place
StagingReplaceAtomic == pc = "done" => staging = last_good

\* C10: two records of a batch whose key fields differ get different
\* composite key strings, hence different SourceAdmissionIDs
CompositeKeyInjective ==
    \A r1, r2 \in Recs(clean_df) :
        FiveTuple(r1) # FiveTuple(r2) => r1.SourceAdmissionID # r2.SourceAdmissionID

====
